---- MODULE Spec2Model ----
(***************************************************************************)
(* Model of app.py, the "MostPopular Outlier Finder": one Streamlit script *)
(* run that collects chart video ids, resolves them through the SQLite     *)
(* cache (videos_cache, channels_cache) and the YouTube API, filters and   *)
(* sorts.  A scan is modelled as the sequence of its statements that talk  *)
(* to the remote API, to the cache or to the clock; the cache tables and   *)
(* the clock persist from one scan to the next.                            *)
(***************************************************************************)
EXTENDS Integers, Sequences, FiniteSets, TLC

VARIABLES
  now,              \* datetime.now(timezone.utc).timestamp(), in seconds
  videos_cache,     \* table videos_cache: a set of rows
  channels_cache,   \* table channels_cache: a set of rows
  remote_videos,    \* what videos().list returns for an id (<<>>: deleted/private)
  remote_subs,      \* what channels().list returns for a channel id
  pc,               \* the statement of the script that runs next
  ui,               \* the sidebar values the statement that ran last has read
  exc,              \* the HttpError being raised, None when there is none
  cat_i,            \* index into selected_ids of the per-category loop
  page_n,           \* iterations done by the loop of most_popular_video_ids
  page_token,       \* page_token of most_popular_video_ids
  ids,              \* ids of most_popular_video_ids (local list)
  video_ids,        \* video_ids of the script
  cached_v,         \* cached_v, a dict in insertion order: sequence of snapshots
  missing_v,        \* missing_v
  chunk_i,          \* loop variable i of fetch_videos_api / fetch_channels_subs_api
  fresh_v_items,    \* out of fetch_videos_api, then fresh_v_items
  vids,             \* vids = list(all_v.values())
  channel_ids,      \* channel_ids
  cached_c,         \* cached_c, a dict: function channel id -> optional subs
  missing_c,        \* missing_c
  fresh_subs,       \* result of fetch_channels_subs_api, then fresh_subs
  rows,             \* rows
  df,               \* the sorted data frame, as the sequence of its rows
  errors,           \* errors
  chart_calls,      \* requests of the running most_popular_video_ids, in order
  calls,            \* detail and statistics requests of the running scan, in order
  gathered,         \* video_ids as collected, before "dedupe + hard limit"
  last,             \* what the latest completed scan looked for and resolved
  ticks,            \* clock advances so far
  nscans,           \* scans started so far
  peer,             \* a second run of the script on the same cache file
  commits           \* the write transactions committed to the file, in order

vars == <<now, videos_cache, channels_cache, remote_videos, remote_subs, pc, ui, exc,
          cat_i, page_n, page_token, ids, video_ids, cached_v, missing_v, chunk_i,
          fresh_v_items, vids, channel_ids, cached_c, missing_c, fresh_subs, rows,
          df, errors, chart_calls, calls, gathered, last, ticks, nscans, peer, commits>>

(***************************************************************************)
(* Bounds of the model.                                                    *)
(***************************************************************************)
MaxScans == 2       \* scans per behaviour
MaxTicks == 2       \* clock advances per behaviour
MaxPages == 2       \* largest value of the "pages" slider explored
MaxPageLen == 1     \* most items one chart page carries
MaxCap == 3         \* largest value of max_candidates explored
MaxHours == 2       \* largest cache window explored, in hours
Time0 == 1000000    \* the clock when the first scan starts
MaxShuffled == 3    \* largest set of rows or items explored in every order

(***************************************************************************)
(* Program constants.                                                      *)
(***************************************************************************)
HourSecs == 3600    \* max_age_hours * 3600
DaySecs == 86400    \* total_seconds() / 86400
ChunkSize == 50     \* range(0, len(ids), 50)

VideoIds == {"a", "b", "c"}
ChannelIds == {"k1", "k2"}
Categories == <<"c1", "c2">>

(***************************************************************************)
(* Python values.  None is the empty tuple and a present optional value a  *)
(* one-element tuple, so that None, 0 and "" stay three different values.  *)
(***************************************************************************)
None == <<>>
Some(x) == <<x>>
IsNone(o) == o = <<>>
Val(o) == o[1]

Range(s) == {s[i] : i \in 1..Len(s)}
Min(a, b) == IF a <= b THEN a ELSE b
Max(a, b) == IF a >= b THEN a ELSE b
Take(s, n) == SubSeq(s, 1, Min(n, Len(s)))
Perms(S) == {p \in [1..Cardinality(S) -> S] : \A x \in S : \E i \in DOMAIN p : p[i] = x}

\* list(S) for a set: one listing of its elements.  The script only tests
\* channel_ids for membership and sends it in batches.
RECURSIVE list_of_set(_)
list_of_set(S) ==
  IF S = {} THEN <<>>
  ELSE LET x == CHOOSE y \in S : TRUE IN <<x>> \o list_of_set(S \ {x})

\* The orders explored for rows or items that come in no promised order: every
\* listing of a set of at most MaxShuffled elements, one listing of a larger one.
Orders(S) == IF Cardinality(S) <= MaxShuffled THEN Perms(S) ELSE {list_of_set(S)}

\* list(dict.fromkeys(xs)): the distinct elements, each at its first occurrence.
RECURSIVE DedupeFrom(_, _)
DedupeFrom(xs, acc) ==
  IF xs = <<>> THEN acc
  ELSE DedupeFrom(Tail(xs),
                  IF Head(xs) \in Range(acc) THEN acc ELSE Append(acc, Head(xs)))
dict_fromkeys(xs) == DedupeFrom(xs, <<>>)

(***************************************************************************)
(* Timestamps.  A TEXT timestamp is the string isoformat() writes for an   *)
(* instant, or a string fromisoformat() rejects.                           *)
(***************************************************************************)
IsoText(t) == [kind |-> "iso", t |-> t]
BadText == [kind |-> "bad", t |-> 0]
EmptyText == [kind |-> "empty", t |-> 0]
NullText == [kind |-> "null", t |-> 0]      \* NULL in a TEXT column

now_utc_iso(t) == IsoText(t)
\* datetime.fromisoformat(s).timestamp(); None stands for the exception raised.
fromisoformat(s) == IF s.kind = "iso" THEN Some(s.t) ELSE None

(***************************************************************************)
(* iso_duration_to_seconds.  A duration code is the sequence of its        *)
(* characters; DUR_RE.fullmatch is PT, then an optional <digits>H, an      *)
(* optional <digits>M and an optional <digits>S, in that order, and        *)
(* nothing else.                                                           *)
(***************************************************************************)
DigitVal == [c \in {"0", "1", "2", "3", "4", "5", "6", "7", "8", "9"} |->
              CASE c = "0" -> 0 [] c = "1" -> 1 [] c = "2" -> 2 [] c = "3" -> 3
                [] c = "4" -> 4 [] c = "5" -> 5 [] c = "6" -> 6 [] c = "7" -> 7
                [] c = "8" -> 8 [] c = "9" -> 9]
IsDigit(c) == c \in DOMAIN DigitVal

\* First position at or after p that holds no digit (Len(s) + 1 if none).
RECURSIVE DigitsEnd(_, _)
DigitsEnd(s, p) ==
  IF p > Len(s) \/ ~IsDigit(s[p]) THEN p ELSE DigitsEnd(s, p + 1)

\* int() of the digits s[p..q-1].
RECURSIVE IntOf(_, _, _, _)
IntOf(s, p, q, acc) ==
  IF p >= q THEN acc ELSE IntOf(s, p + 1, q, 10 * acc + DigitVal[s[p]])

\* The groups (h, m, s) of the match from position p on, None for no match;
\* stage is the first unit still allowed (1: H, 2: M, 3: S, 4: none).
RECURSIVE DurGroups(_, _, _, _)
DurGroups(s, p, stage, g) ==
  IF p > Len(s) THEN Some(g)
  ELSE LET q == DigitsEnd(s, p) IN
       IF q = p \/ q > Len(s) THEN None
       ELSE LET n == IntOf(s, p, q, 0) IN
            IF s[q] = "H" /\ stage <= 1 THEN DurGroups(s, q + 1, 2, [g EXCEPT ![1] = n])
            ELSE IF s[q] = "M" /\ stage <= 2 THEN DurGroups(s, q + 1, 3, [g EXCEPT ![2] = n])
            ELSE IF s[q] = "S" /\ stage <= 3 THEN DurGroups(s, q + 1, 4, [g EXCEPT ![3] = n])
            ELSE None

DUR_RE_fullmatch(d) ==
  IF Len(d) >= 2 /\ d[1] = "P" /\ d[2] = "T" THEN DurGroups(d, 3, 1, <<0, 0, 0>>)
  ELSE None

iso_duration_to_seconds(d) ==
  LET m == DUR_RE_fullmatch(d) IN
  IF IsNone(m) THEN 0
  ELSE Val(m)[1] * 3600 + Val(m)[2] * 60 + Val(m)[3]

(***************************************************************************)
(* age_days, in seconds: max(days, 0.1) is max(seconds, 8640).  None       *)
(* stands for the ValueError of fromisoformat.                             *)
(***************************************************************************)
age_days(published_at, t) ==
  LET dt == fromisoformat(published_at) IN
  IF IsNone(dt) THEN None ELSE Some(Max(t - Val(dt), DaySecs \div 10))

\* round(n / d, 2) in hundredths, for n >= 0 and d > 0 (ties to even).
Round2(n, d) ==
  LET q == (100 * n) \div d
      r == (100 * n) % d
  IN IF 2 * r > d THEN q + 1
     ELSE IF 2 * r < d THEN q
     ELSE IF q % 2 = 0 THEN q ELSE q + 1

(***************************************************************************)
(* SQLite cache.  A table is the set of its rows.                          *)
(***************************************************************************)
\* Two faulty freshness tests the properties on the window tell from is_fresh:
\* a strict comparison, and a window counted in minutes.
is_fresh_strict(fetched_at, max_age_hours, t) ==
  LET p == fromisoformat(fetched_at)
      ts == IF IsNone(p) THEN 0 ELSE Val(p)
      cutoff == t - max_age_hours * HourSecs
  IN ts > cutoff
is_fresh_minutes(fetched_at, max_age_hours, t) ==
  LET p == fromisoformat(fetched_at)
      ts == IF IsNone(p) THEN 0 ELSE Val(p)
      cutoff == t - max_age_hours * 60
  IN ts >= cutoff

\* ts >= cutoff of get_cached_videos and get_cached_subs.
is_fresh(fetched_at, max_age_hours, t) ==
  LET p == fromisoformat(fetched_at)
      ts == IF IsNone(p) THEN 0 ELSE Val(p)
      cutoff == t - max_age_hours * HourSecs
  IN ts >= cutoff

\* The dict get_cached_videos builds for one row.
snapshot_of_row(r) ==
  [videoId |-> r.video_id, title |-> r.title, channelId |-> r.channel_id,
   channelTitle |-> r.channel_title, publishedAt |-> r.published_at,
   views |-> r.views, duration_iso |-> r.duration_iso, thumbnail |-> r.thumbnail]

\* The entries of the dict get_cached_videos returns; their order is that of
\* the rows of a SELECT without ORDER BY.
get_cached_videos(table, ids_, max_age_hours, t) ==
  IF ids_ = <<>> THEN {}
  ELSE {snapshot_of_row(r) :
          r \in {x \in table : /\ x.video_id \in Range(ids_)
                               /\ is_fresh(x.fetched_at, max_age_hours, t)}}

\* The tuple upsert_videos_cache binds for one item.
row_of_item(it, t) ==
  [video_id |-> it.videoId, title |-> it.title, channel_id |-> it.channelId,
   channel_title |-> it.channelTitle, published_at |-> it.publishedAt,
   views |-> it.views, duration_iso |-> it.duration_iso, thumbnail |-> it.thumbnail,
   fetched_at |-> now_utc_iso(t)]

\* A faulty upsert, INSERT OR IGNORE: the stored row is kept as it is.
insert_or_ignore(table, it, t) ==
  IF \E r \in table : r.video_id = it.videoId THEN table
  ELSE table \cup {row_of_item(it, t)}

\* A faulty upsert whose DO UPDATE leaves views out: the stored count stays.
update_without_views(table, it, t) ==
  {r \in table : r.video_id # it.videoId}
    \cup {IF \E r \in table : r.video_id = it.videoId
            THEN [row_of_item(it, t) EXCEPT
                    !.views = (CHOOSE r \in table : r.video_id = it.videoId).views]
            ELSE row_of_item(it, t)}

\* INSERT ... ON CONFLICT(video_id) DO UPDATE SET <every column>, one item.
upsert_video_row(table, it, t) ==
  {r \in table : r.video_id # it.videoId} \cup {row_of_item(it, t)}

RECURSIVE upsert_videos_cache(_, _, _)
upsert_videos_cache(table, items, t) ==
  IF items = <<>> THEN table
  ELSE upsert_videos_cache(upsert_video_row(table, Head(items), t), Tail(items), t)

\* A faulty lookup that leaves the rows with a NULL subs out of the dict.
get_cached_subs_not_null(table, cids, max_age_hours, t) ==
  LET hit == {x \in table : /\ x.channel_id \in Range(cids)
                            /\ is_fresh(x.fetched_at, max_age_hours, t)
                            /\ x.subs # None}
  IN [c \in {x.channel_id : x \in hit} |->
        (CHOOSE x \in hit : x.channel_id = c).subs]

\* The dict get_cached_subs returns.
get_cached_subs(table, cids, max_age_hours, t) ==
  LET hit == {x \in table : /\ x.channel_id \in Range(cids)
                            /\ is_fresh(x.fetched_at, max_age_hours, t)}
  IN [c \in {x.channel_id : x \in hit} |->
        (CHOOSE x \in hit : x.channel_id = c).subs]

\* A faulty write that replaces the table by the rows of its input.
replace_channels_cache(table, items, t) ==
  {[channel_id |-> c, subs |-> items[c], fetched_at |-> now_utc_iso(t)] : c \in DOMAIN items}

\* INSERT ... ON CONFLICT(channel_id) DO UPDATE SET subs, fetched_at.
upsert_channels_cache(table, items, t) ==
  {r \in table : r.channel_id \notin DOMAIN items}
    \cup {[channel_id |-> c, subs |-> items[c], fetched_at |-> now_utc_iso(t)] :
            c \in DOMAIN items}

\* d.get(k): None for a key the dict lacks.
dict_get(d, k) == IF k \in DOMAIN d THEN d[k] ELSE None

(***************************************************************************)
(* The remote API.  remote_videos[id] is the item videos().list returns    *)
(* for id (None: the id is absent from the response, a deleted or private  *)
(* video); remote_subs[c] is None for a channel absent from the response,  *)
(* Some(None) for an item without subscriberCount and Some(Some(n)) for a  *)
(* count of n.                                                             *)
(***************************************************************************)
ThumbKeys == <<"maxres", "standard", "high", "medium", "default">>

\* The first key of ThumbKeys the item's thumbnails hold, or None.
RECURSIVE thumb_url(_, _)
thumb_url(thumbs, k) ==
  IF k > Len(ThumbKeys) THEN None
  ELSE IF ThumbKeys[k] \in DOMAIN thumbs THEN Some(thumbs[ThumbKeys[k]])
  ELSE thumb_url(thumbs, k + 1)

\* The dict fetch_videos_api appends for one item of the response.
item_dict(id, it) ==
  [videoId |-> id, title |-> it.title, channelId |-> it.channelId,
   channelTitle |-> it.channelTitle, publishedAt |-> it.publishedAt,
   views |-> IF IsNone(it.viewCount) THEN 0 ELSE Val(it.viewCount),
   duration_iso |-> it.duration, thumbnail |-> thumb_url(it.thumbnails, 1)]

Item(title, channel, pub, views, dur, thumbs) ==
  [title |-> title, channelId |-> channel, channelTitle |-> channel,
   publishedAt |-> pub, viewCount |-> views, duration |-> dur, thumbnails |-> thumbs]

PT2M == <<"P", "T", "2", "M">>
PT45S == <<"P", "T", "4", "5", "S">>
PT1H2M3S == <<"P", "T", "1", "H", "2", "M", "3", "S">>
Garbage == <<"g", "a", "r", "b", "a", "g", "e">>
NoThumbs == [k \in {} |-> ""]
HighThumb == [k \in {"high", "default"} |-> IF k = "high" THEN "hi.jpg" ELSE "lo.jpg"]

\* Two long videos of one channel that tie on every sort key, a short one of a
\* channel that hides its count.
WorldPlain ==
  [videos |-> [v \in VideoIds |->
      CASE v = "a" -> Some(Item("A", "k1", IsoText(Time0 - DaySecs), Some(20), PT2M, HighThumb))
        [] v = "b" -> Some(Item("B", "k1", IsoText(Time0 - DaySecs), Some(20), PT2M, HighThumb))
        [] v = "c" -> Some(Item("C", "k2", IsoText(Time0 - 10 * DaySecs), Some(10), PT45S, NoThumbs))],
   subs |-> [c \in ChannelIds |-> IF c = "k1" THEN Some(Some(5)) ELSE Some(None)]]

\* A deleted video, a channel the response omits, an item with bare fields.
WorldGaps ==
  [videos |-> [v \in VideoIds |->
      CASE v = "a" -> None
        [] v = "b" -> Some(Item("B", "k1", IsoText(Time0 - DaySecs), Some(20), PT1H2M3S, HighThumb))
        [] v = "c" -> Some(Item("", "", EmptyText, None, <<>>, NoThumbs))],
   subs |-> [c \in ChannelIds |-> IF c = "k1" THEN None ELSE Some(Some(0))]]

\* Fields the parsers reject, a video dated after the clock, a channel with no
\* subscriber and one with more than some max_subs explored.
WorldOdd ==
  [videos |-> [v \in VideoIds |->
      CASE v = "a" -> Some(Item("A", "k1", BadText, Some(20), PT2M, NoThumbs))
        [] v = "b" -> Some(Item("B", "k2", IsoText(Time0 - DaySecs), Some(10), Garbage, NoThumbs))
        [] v = "c" -> Some(Item("C", "k2", IsoText(Time0 + DaySecs), Some(20), PT2M, NoThumbs))],
   subs |-> [c \in ChannelIds |-> IF c = "k1" THEN Some(Some(0)) ELSE Some(Some(8))]]

Worlds == {WorldPlain, WorldGaps, WorldOdd}

(***************************************************************************)
(* Sidebar values.  Each is drawn where the script reads it; ui holds the  *)
(* ones the statement that ran last has read (the collection loop keeps    *)
(* reading the same ones).                                                 *)
(***************************************************************************)
UiUnread ==
  [scan_by_categories |-> FALSE, selected_ids |-> <<>>, pages |-> 0,
   max_candidates |-> 0, video_cache_hours |-> 0, channel_cache_hours |-> 0,
   exclude_shorts |-> FALSE, min_seconds |-> 0, max_subs |-> 0, min_views |-> 0,
   min_ratio |-> 0, sort_mode |-> ""]

Selections == {<<>>, <<"c2">>, <<"c2", "c1">>}
MinSecondsChoices == {60}
MaxSubsChoices == {0, 10}
MinViewsChoices == {0, 15}
MinRatioChoices == {0, 3}
SortModes == {"views_per_day", "ratio", "views", "date"}
HttpErrors == {"notFound", "quotaExceeded", "backendError"}
PageTokens == {None, Some(""), Some("tA"), Some("tB")}
Pages == UNION {[1..n -> VideoIds] : n \in 0..MaxPageLen}

NoLast == [completed |-> FALSE, scan |-> 0, video_ids |-> {}, resolved |-> {},
           channel_ids |-> {}, subs_keys |-> {}]

cacheVars == <<videos_cache, channels_cache>>
worldVars == <<remote_videos, remote_subs>>
chartVars == <<cat_i, page_n, page_token, ids, chart_calls>>
videoVars == <<cached_v, missing_v, fresh_v_items, vids>>
channelVars == <<channel_ids, cached_c, missing_c, fresh_subs>>
outVars == <<rows, df, errors>>
boundVars == <<ticks, nscans>>
concVars == <<peer, commits>>

\* No second run of the script.
NoPeer ==
  [pc |-> "absent", video_ids |-> <<>>, cached_v |-> <<>>, missing_v |-> <<>>,
   fresh_v_items |-> <<>>, missing_c |-> <<>>, fresh_subs |-> <<>>]

Init ==
  /\ now = Time0
  /\ videos_cache = {}
  /\ channels_cache = {}
  /\ \E w \in Worlds : remote_videos = w.videos /\ remote_subs = w.subs
  /\ pc = "idle"
  /\ ui = UiUnread
  /\ exc = None
  /\ cat_i = 0 /\ page_n = 0 /\ page_token = None /\ ids = <<>> /\ chart_calls = <<>>
  /\ video_ids = <<>> /\ cached_v = <<>> /\ missing_v = <<>> /\ chunk_i = 0
  /\ fresh_v_items = <<>> /\ vids = <<>> /\ channel_ids = <<>>
  /\ cached_c = <<>> /\ missing_c = <<>> /\ fresh_subs = <<>>
  /\ rows = <<>> /\ df = <<>> /\ errors = <<>>
  /\ calls = <<>> /\ gathered = <<>> /\ last = NoLast
  /\ ticks = 0 /\ nscans = 0
  /\ peer = NoPeer /\ commits = <<>>

(***************************************************************************)
(* The button "Сканировать": the script runs from the top.                 *)
(***************************************************************************)
StartScan ==
  /\ pc \in {"idle", "done", "error", "crashed"}
  /\ nscans < MaxScans
  /\ nscans' = nscans + 1
  /\ \E by_cat \in BOOLEAN, p \in 1..MaxPages :
       /\ ui' = [UiUnread EXCEPT !.scan_by_categories = by_cat, !.pages = p]
       /\ pc' = IF by_cat THEN "categories" ELSE "chart"
  /\ exc' = None
  /\ cat_i' = 0 /\ page_n' = 0 /\ page_token' = None /\ ids' = <<>> /\ chart_calls' = <<>>
  /\ video_ids' = <<>> /\ cached_v' = <<>> /\ missing_v' = <<>> /\ chunk_i' = 0
  /\ fresh_v_items' = <<>> /\ vids' = <<>> /\ channel_ids' = <<>>
  /\ cached_c' = <<>> /\ missing_c' = <<>> /\ fresh_subs' = <<>>
  /\ rows' = <<>> /\ df' = <<>> /\ errors' = <<>>
  /\ calls' = <<>> /\ gathered' = <<>>
  /\ UNCHANGED <<now, cacheVars, worldVars, last, ticks>>

\* fetch_categories and the multiselect: selected_ids, all categories if none
\* is picked.
FetchCategories ==
  /\ pc = "categories" /\ exc = None
  /\ \/ \E sel \in Selections :
          /\ ui' = [ui EXCEPT !.selected_ids = IF sel = <<>> THEN Categories ELSE sel]
          /\ cat_i' = 1
          /\ pc' = "chart"
          /\ UNCHANGED exc
     \/ \E e \in HttpErrors :
          /\ exc' = Some(e)
          /\ UNCHANGED <<ui, cat_i, pc>>
  /\ UNCHANGED <<now, cacheVars, worldVars, page_n, page_token, ids, chart_calls,
                 video_ids, videoVars, chunk_i, channelVars, outVars, calls,
                 gathered, last, boundVars>>

(***************************************************************************)
(* Candidate collection: most_popular_video_ids, once without a category   *)
(* or once per selected category.                                          *)
(***************************************************************************)
\* A faulty test that takes every token, None and "" included, for a next page.
truthy_always(tok) == TRUE
Truthy(tok) == ~IsNone(tok) /\ Val(tok) # ""

\* params of videos().list(**params) in most_popular_video_ids.
ChartCall ==
  [category |-> IF ui.scan_by_categories THEN Some(ui.selected_ids[cat_i]) ELSE None,
   page_token |-> IF Truthy(page_token) THEN page_token ELSE None]

\* The for loop over selected_ids moves on, or the collection is over.
NextCategory ==
  /\ page_n' = 0 /\ page_token' = None /\ ids' = <<>> /\ chart_calls' = <<>>
  /\ IF ui.scan_by_categories /\ cat_i < Len(ui.selected_ids)
       THEN cat_i' = cat_i + 1 /\ pc' = "chart"
       ELSE cat_i' = cat_i /\ pc' = "dedupe"

\* One iteration of the loop of most_popular_video_ids whose request succeeds;
\* on the last one the function returns and the caller extends video_ids.
ChartPageOk(items, next) ==
  LET ids2 == ids \o items IN
  IF ~Truthy(next) \/ page_n + 1 >= ui.pages
    THEN /\ video_ids' = video_ids \o dict_fromkeys(ids2)
         /\ NextCategory
    ELSE /\ ids' = ids2
         /\ page_token' = next
         /\ page_n' = page_n + 1
         /\ chart_calls' = Append(chart_calls, ChartCall)
         /\ UNCHANGED <<video_ids, cat_i, pc>>

ChartPage ==
  /\ pc = "chart" /\ exc = None
  /\ \/ \E items \in Pages, next \in PageTokens :
          ChartPageOk(items, next) /\ UNCHANGED exc
     \/ \E e \in HttpErrors :
          /\ exc' = Some(e)
          /\ chart_calls' = Append(chart_calls, ChartCall)
          /\ UNCHANGED <<cat_i, page_n, page_token, ids, video_ids, pc>>
  /\ UNCHANGED <<now, cacheVars, worldVars, ui, videoVars, chunk_i, channelVars,
                 outVars, calls, gathered, last, boundVars>>

(***************************************************************************)
(* HttpError.  The call in the per-category loop sits in its own try       *)
(* ("except HttpError as e: continue"); every other call is caught by the  *)
(* handler of the whole scan, which reports and stops.                     *)
(***************************************************************************)
\* A faulty script without the try of the per-category loop.
NoCategoryTry == FALSE
InCategoryTry == pc = "chart" /\ ui.scan_by_categories

HandleHttpError ==
  /\ exc # None
  /\ exc' = None
  /\ IF InCategoryTry
       THEN /\ NextCategory
            /\ UNCHANGED <<errors, ui>>
       ELSE /\ errors' = Append(errors, Val(exc))
            /\ pc' = "error"
            /\ ui' = UiUnread
            /\ UNCHANGED chartVars
  /\ UNCHANGED <<now, cacheVars, worldVars, video_ids, videoVars, chunk_i,
                 channelVars, rows, df, calls, gathered, last, boundVars>>

\* A faulty order of the two steps: the cut first, the dedupe after.
cap_then_dedupe(xs, max_candidates) == dict_fromkeys(Take(xs, max_candidates))

\* A faulty dedupe that forgets the hard limit.
dedupe_no_cap(xs, max_candidates) == dict_fromkeys(xs)

\* video_ids = list(dict.fromkeys(video_ids))[: int(max_candidates)]
dedupe_and_cap(xs, max_candidates) == Take(dict_fromkeys(xs), max_candidates)

Dedupe ==
  /\ pc = "dedupe"
  /\ \E cap \in 1..MaxCap :
       /\ ui' = [UiUnread EXCEPT !.max_candidates = cap]
       /\ video_ids' = dedupe_and_cap(video_ids, cap)
  /\ gathered' = video_ids
  /\ pc' = "videos_lookup"
  /\ UNCHANGED <<now, cacheVars, worldVars, exc, chartVars, videoVars, chunk_i,
                 channelVars, outVars, calls, last, boundVars>>

(***************************************************************************)
(* Videos: cache first, then the API for what the cache lacks.             *)
(***************************************************************************)
Keys(snaps) == {snaps[i].videoId : i \in 1..Len(snaps)}
\* A faulty difference that keeps every id: the cache is never trusted.
WithoutNothing(xs, S) == xs
Without(xs, S) == SelectSeq(xs, LAMBDA x : x \notin S)

VideosLookup ==
  /\ pc = "videos_lookup"
  /\ \E h \in 1..MaxHours :
       /\ ui' = [UiUnread EXCEPT !.video_cache_hours = h]
       /\ \E out \in Orders(get_cached_videos(videos_cache, video_ids, h, now)) :
            /\ cached_v' = out
            /\ missing_v' = Without(video_ids, Keys(out))
            /\ pc' = IF Without(video_ids, Keys(out)) # <<>>
                       THEN "videos_fetch" ELSE "merge"
  /\ chunk_i' = 0
  /\ gathered' = <<>>
  /\ UNCHANGED <<now, cacheVars, worldVars, exc, chartVars, video_ids,
                 fresh_v_items, vids, channelVars, outVars, calls, last, boundVars>>

\* A faulty slice that runs one element into the next batch.
chunk_one_more(xs, i) == SubSeq(xs, i + 1, Min(i + ChunkSize + 1, Len(xs)))
Chunk(xs, i) == SubSeq(xs, i + 1, Min(i + ChunkSize, Len(xs)))

\* One iteration of the loop of fetch_videos_api.
VideosFetch ==
  /\ pc = "videos_fetch" /\ exc = None
  /\ LET chunk == Chunk(missing_v, chunk_i) IN
     /\ calls' = Append(calls, [op |-> "videos", ids |-> chunk])
     /\ \/ \E resp \in Orders({v \in Range(chunk) : ~IsNone(remote_videos[v])}) :
             /\ fresh_v_items' = fresh_v_items \o
                   [k \in 1..Len(resp) |-> item_dict(resp[k], Val(remote_videos[resp[k]]))]
             /\ chunk_i' = chunk_i + ChunkSize
             /\ pc' = IF chunk_i + ChunkSize < Len(missing_v)
                        THEN "videos_fetch" ELSE "videos_upsert"
             /\ UNCHANGED exc
        \/ \E e \in HttpErrors :
             /\ exc' = Some(e)
             /\ UNCHANGED <<fresh_v_items, chunk_i, pc>>
  /\ ui' = UiUnread
  /\ UNCHANGED <<now, cacheVars, worldVars, chartVars, video_ids, cached_v,
                 missing_v, vids, channelVars, outVars, gathered, last, boundVars>>

VideosUpsert ==
  /\ pc = "videos_upsert"
  /\ videos_cache' = upsert_videos_cache(videos_cache, fresh_v_items, now)
  /\ pc' = "merge"
  /\ UNCHANGED <<now, channels_cache, worldVars, ui, exc, chartVars, video_ids,
                 videoVars, chunk_i, channelVars, outVars, calls, gathered, last,
                 boundVars>>

\* {**cached_v, **{it["videoId"]: it for it in fresh_v_items}}: a key keeps the
\* place of its first insertion and the value of its last.
dict_merge(base, more) ==
  LET last_of(id) == more[CHOOSE i \in 1..Len(more) :
                            /\ more[i].videoId = id
                            /\ \A j \in (i + 1)..Len(more) : more[j].videoId # id]
      new == {i \in 1..Len(more) :
                /\ more[i].videoId \notin Keys(base)
                /\ \A j \in 1..(i - 1) : more[j].videoId # more[i].videoId}
      nth(k) == CHOOSE i \in new : Cardinality({j \in new : j < i}) = k - 1
  IN [k \in 1..Len(base) |->
        IF base[k].videoId \in Keys(more) THEN last_of(base[k].videoId) ELSE base[k]]
     \o [k \in 1..Cardinality(new) |-> last_of(more[nth(k)].videoId)]

\* all_v, vids and channel_ids.
Merge ==
  /\ pc = "merge"
  /\ LET all_v == dict_merge(cached_v, fresh_v_items) IN
     /\ vids' = all_v
     /\ channel_ids' = list_of_set({all_v[k].channelId : k \in 1..Len(all_v)} \ {""})
  /\ pc' = "channels_lookup"
  /\ ui' = UiUnread
  /\ UNCHANGED <<now, cacheVars, worldVars, exc, chartVars, video_ids, cached_v,
                 missing_v, fresh_v_items, chunk_i, cached_c, missing_c, fresh_subs,
                 outVars, calls, gathered, last, boundVars>>

(***************************************************************************)
(* Channel subscriber counts: cache first, then the API.                   *)
(***************************************************************************)
ChannelsLookup ==
  /\ pc = "channels_lookup"
  /\ \E h \in 1..MaxHours :
       /\ ui' = [UiUnread EXCEPT !.channel_cache_hours = h]
       /\ LET out == IF channel_ids = <<>> THEN <<>>
                     ELSE get_cached_subs(channels_cache, channel_ids, h, now) IN
          /\ cached_c' = out
          /\ missing_c' = Without(channel_ids, DOMAIN out)
          /\ pc' = IF Without(channel_ids, DOMAIN out) # <<>>
                     THEN "channels_fetch" ELSE "filter"
  /\ chunk_i' = 0
  /\ UNCHANGED <<now, cacheVars, worldVars, exc, chartVars, video_ids, videoVars,
                 channel_ids, fresh_subs, outVars, calls, gathered, last, boundVars>>

\* result[it["id"]] = int(subs) if subs is not None else None, for the items of
\* one response.
subs_of_response(chunk) ==
  [c \in {x \in Range(chunk) : ~IsNone(remote_subs[x])} |-> Val(remote_subs[c])]

\* One iteration of the loop of fetch_channels_subs_api.
ChannelsFetch ==
  /\ pc = "channels_fetch" /\ exc = None
  /\ LET wanted == SelectSeq(missing_c, LAMBDA c : c # "")
         chunk == Chunk(wanted, chunk_i) IN
     /\ calls' = Append(calls, [op |-> "channels", ids |-> chunk])
     /\ \/ /\ fresh_subs' = subs_of_response(chunk) @@ fresh_subs
           /\ chunk_i' = chunk_i + ChunkSize
           /\ pc' = IF chunk_i + ChunkSize < Len(wanted)
                      THEN "channels_fetch" ELSE "channels_upsert"
           /\ UNCHANGED exc
        \/ \E e \in HttpErrors :
             /\ exc' = Some(e)
             /\ UNCHANGED <<fresh_subs, chunk_i, pc>>
  /\ ui' = UiUnread
  /\ UNCHANGED <<now, cacheVars, worldVars, chartVars, video_ids, videoVars,
                 channel_ids, cached_c, missing_c, outVars, gathered, last, boundVars>>

ChannelsUpsert ==
  /\ pc = "channels_upsert"
  /\ channels_cache' = upsert_channels_cache(channels_cache, fresh_subs, now)
  /\ pc' = "filter"
  /\ UNCHANGED <<now, videos_cache, worldVars, ui, exc, chartVars, video_ids,
                 videoVars, chunk_i, channelVars, outVars, calls, gathered, last,
                 boundVars>>

(***************************************************************************)
(* Compute and filter.                                                     *)
(***************************************************************************)
\* subs_map = {**cached_c, **fresh_subs}
subs_map == fresh_subs @@ cached_c

\* The body of "for v in vids" for one video: "skip" for a continue, "row" with
\* the appended row, "raise" for the ValueError of age_days.
filter_one(v, smap, f, t) ==
  LET secs == iso_duration_to_seconds(v.duration_iso)
      subs == dict_get(smap, v.channelId)
      days == IF v.publishedAt.kind # "empty" THEN age_days(v.publishedAt, t) ELSE None
      has_ratio == ~IsNone(subs) /\ Val(subs) > 0
  IN IF f.exclude_shorts /\ secs < f.min_seconds THEN [kind |-> "skip"]
     ELSE IF v.publishedAt.kind # "empty" /\ IsNone(days) THEN [kind |-> "raise"]
     ELSE IF v.views < f.min_views THEN [kind |-> "skip"]
     ELSE IF ~IsNone(subs) /\ Val(subs) > f.max_subs THEN [kind |-> "skip"]
     ELSE IF has_ratio /\ v.views < f.min_ratio * Val(subs) THEN [kind |-> "skip"]
     ELSE [kind |-> "row",
           row |-> [title |-> v.title, channel |-> v.channelTitle, subs |-> subs,
                    views |-> v.views,
                    views_per_day |-> IF IsNone(days) THEN None
                                      ELSE Some(Round2(v.views * DaySecs, Val(days))),
                    ratio |-> IF has_ratio THEN Some(Round2(v.views, Val(subs))) ELSE None,
                    duration_sec |-> secs, publishedAt |-> v.publishedAt,
                    thumbnail |-> v.thumbnail, url |-> v.videoId]]

\* The loop: Some(rows), or None when an iteration raises.
RECURSIVE filter_rows(_, _, _, _, _)
filter_rows(vs, smap, f, t, acc) ==
  IF vs = <<>> THEN Some(acc)
  ELSE LET r == filter_one(Head(vs), smap, f, t) IN
       IF r.kind = "raise" THEN None
       ELSE filter_rows(Tail(vs), smap, f, t,
                        IF r.kind = "row" THEN Append(acc, r.row) ELSE acc)

Filter ==
  /\ pc = "filter"
  /\ \E es \in BOOLEAN, ms \in MinSecondsChoices, xs \in MaxSubsChoices,
        mv \in MinViewsChoices, mr \in MinRatioChoices :
       LET f == [UiUnread EXCEPT !.exclude_shorts = es, !.min_seconds = ms,
                                 !.max_subs = xs, !.min_views = mv, !.min_ratio = mr]
           out == filter_rows(vids, subs_map, f, now, <<>>)
       IN /\ ui' = f
          /\ IF IsNone(out)
               THEN rows' = <<>> /\ pc' = "crashed"
               ELSE rows' = Val(out) /\ pc' = "render"
  /\ UNCHANGED <<now, cacheVars, worldVars, exc, chartVars, video_ids, videoVars,
                 chunk_i, channelVars, df, errors, calls, gathered, last, boundVars>>

(***************************************************************************)
(* Sort and render.                                                        *)
(***************************************************************************)
\* The column sort_values orders by (descending); fillna(-1) for a missing
\* views_per_day or ratio, and "" below every timestamp.
sort_key(r, sort_mode) ==
  CASE sort_mode = "views_per_day" ->
         IF IsNone(r.views_per_day) THEN -100 ELSE Val(r.views_per_day)
    [] sort_mode = "ratio" -> IF IsNone(r.ratio) THEN -100 ELSE Val(r.ratio)
    [] sort_mode = "views" -> r.views
    [] OTHER -> IF r.publishedAt.kind = "iso" THEN r.publishedAt.t ELSE -1

\* DataFrame.sort_values(col, ascending=False) with the default kind, quicksort,
\* which is not stable: any descending arrangement of the rows.
sort_values(rs, sort_mode) ==
  {[k \in 1..Len(rs) |-> rs[p[k]]] :
     p \in {q \in Perms(1..Len(rs)) :
              \A i \in 1..(Len(rs) - 1) :
                 sort_key(rs[q[i]], sort_mode) >= sort_key(rs[q[i + 1]], sort_mode)}}

\* "if not video_ids" and "if not rows" stop the script before the sort.
Render ==
  /\ pc = "render"
  /\ IF video_ids = <<>> \/ rows = <<>>
       THEN df' = <<>> /\ ui' = UiUnread
       ELSE \E sort_mode \in SortModes :
              /\ ui' = [UiUnread EXCEPT !.sort_mode = sort_mode]
              /\ df' \in sort_values(rows, sort_mode)
  /\ pc' = "done"
  /\ last' = [completed |-> TRUE, scan |-> nscans, video_ids |-> Range(video_ids), resolved |-> Keys(vids),
              channel_ids |-> Range(channel_ids), subs_keys |-> DOMAIN subs_map]
  /\ UNCHANGED <<now, cacheVars, worldVars, exc, chartVars, video_ids, videoVars,
                 chunk_i, channelVars, rows, errors, calls, gathered, boundVars>>

(***************************************************************************)
(* The clock.  A scan takes seconds and the cache windows are hours: time  *)
(* passes between scans, before the first statement that reads the clock,  *)
(* and it is counted from the first record stored.                         *)
(***************************************************************************)
ClockReaders == {"videos_lookup"}

Tick ==
  /\ pc \in ClockReaders
  /\ videos_cache # {} \/ channels_cache # {}
  /\ ticks < MaxTicks
  /\ ticks' = ticks + 1
  /\ \E d \in {1, HourSecs} : now' = now + d
  /\ UNCHANGED <<cacheVars, worldVars, pc, ui, exc, chartVars, video_ids,
                 videoVars, chunk_i, channelVars, outVars, calls, gathered, last,
                 nscans>>

\* One run of the script at a time.
Next ==
  /\ \/ StartScan
     \/ FetchCategories
     \/ ChartPage
     \/ HandleHttpError
     \/ Dedupe
     \/ VideosLookup
     \/ VideosFetch
     \/ VideosUpsert
     \/ Merge
     \/ ChannelsLookup
     \/ ChannelsFetch
     \/ ChannelsUpsert
     \/ Filter
     \/ Render
     \/ Tick
  /\ UNCHANGED concVars

Spec == Init /\ [][Next]_vars

(***************************************************************************)
(* The enrichment of a long candidate list.  max_candidates runs from 50   *)
(* to 1000, so a scan usually sends several batches of 50 ids.  The script *)
(* is taken where the collection has left video_ids, over a cache file     *)
(* that earlier runs, or anything else that wrote the file, have filled.   *)
(***************************************************************************)
LongVideoIds == <<
    "v001", "v002", "v003", "v004", "v005", "v006", "v007", "v008", "v009", "v010",
    "v011", "v012", "v013", "v014", "v015", "v016", "v017", "v018", "v019", "v020",
    "v021", "v022", "v023", "v024", "v025", "v026", "v027", "v028", "v029", "v030",
    "v031", "v032", "v033", "v034", "v035", "v036", "v037", "v038", "v039", "v040",
    "v041", "v042", "v043", "v044", "v045", "v046", "v047", "v048", "v049", "v050",
    "v051", "v052", "v053", "v054", "v055", "v056", "v057", "v058", "v059", "v060",
    "v061", "v062", "v063", "v064", "v065", "v066", "v067", "v068", "v069", "v070",
    "v071", "v072", "v073", "v074", "v075", "v076", "v077", "v078", "v079", "v080",
    "v081", "v082", "v083", "v084", "v085", "v086", "v087", "v088", "v089", "v090",
    "v091", "v092", "v093", "v094", "v095", "v096", "v097", "v098", "v099", "v100",
    "v101" >>
LongChannelIds == <<
    "k001", "k002", "k003", "k004", "k005", "k006", "k007", "k008", "k009", "k010",
    "k011", "k012", "k013", "k014", "k015", "k016", "k017", "k018", "k019", "k020",
    "k021", "k022", "k023", "k024", "k025", "k026", "k027", "k028", "k029", "k030",
    "k031", "k032", "k033", "k034", "k035", "k036", "k037", "k038", "k039", "k040",
    "k041", "k042", "k043", "k044", "k045", "k046", "k047", "k048", "k049", "k050",
    "k051", "k052", "k053", "k054", "k055", "k056", "k057", "k058", "k059", "k060",
    "k061", "k062", "k063", "k064", "k065", "k066", "k067", "k068", "k069", "k070",
    "k071", "k072", "k073", "k074", "k075", "k076", "k077", "k078", "k079", "k080",
    "k081", "k082", "k083", "k084", "k085", "k086", "k087", "k088", "k089", "k090",
    "k091", "k092", "k093", "k094", "k095", "k096", "k097", "k098", "k099", "k100",
    "k101" >>

\* Every video is a long one of a channel of its own.
WorldLong ==
  [videos |-> [v \in Range(LongVideoIds) |->
      Some(Item(v, LongChannelIds[CHOOSE i \in 1..Len(LongVideoIds) : LongVideoIds[i] = v],
                IsoText(Time0 - DaySecs), Some(20), PT2M, NoThumbs))],
   subs |-> [c \in Range(LongChannelIds) |-> Some(Some(5))]]

CandidateCounts == {1, ChunkSize, ChunkSize + 1, 2 * ChunkSize + 1}
StoredCounts == {0, 1, ChunkSize}
\* fetched_at of the rows found in the file: written by now_utc_iso, or not.
StoredTexts == {IsoText(Time0), BadText, EmptyText, NullText}

\* The tables with the first m videos and their channels, stamped fa.
StoredVideos(m, fa) ==
  {[row_of_item(item_dict(LongVideoIds[i], Val(WorldLong.videos[LongVideoIds[i]])), Time0)
      EXCEPT !.fetched_at = fa] : i \in 1..m}
StoredChannels(m, fa) ==
  {[channel_id |-> LongChannelIds[i], subs |-> Some(5), fetched_at |-> fa] : i \in 1..m}

InitEnrich ==
  /\ now = Time0
  /\ \E m \in StoredCounts, fa \in StoredTexts :
       /\ videos_cache = StoredVideos(m, fa)
       /\ channels_cache = StoredChannels(m, fa)
  /\ remote_videos = WorldLong.videos /\ remote_subs = WorldLong.subs
  /\ pc = "videos_lookup"
  /\ ui = [UiUnread EXCEPT !.max_candidates = 3 * ChunkSize]
  /\ exc = None
  /\ cat_i = 0 /\ page_n = 0 /\ page_token = None /\ ids = <<>> /\ chart_calls = <<>>
  /\ \E n \in CandidateCounts : video_ids = Take(LongVideoIds, n)
  /\ gathered = video_ids
  /\ cached_v = <<>> /\ missing_v = <<>> /\ chunk_i = 0
  /\ fresh_v_items = <<>> /\ vids = <<>> /\ channel_ids = <<>>
  /\ cached_c = <<>> /\ missing_c = <<>> /\ fresh_subs = <<>>
  /\ rows = <<>> /\ df = <<>> /\ errors = <<>>
  /\ calls = <<>> /\ last = NoLast
  /\ ticks = 0 /\ nscans = 1
  /\ peer = NoPeer /\ commits = <<>>

NextEnrich ==
  /\ \/ VideosLookup
     \/ VideosFetch
     \/ VideosUpsert
     \/ Merge
     \/ ChannelsLookup
     \/ ChannelsFetch
     \/ ChannelsUpsert
     \/ HandleHttpError
  /\ UNCHANGED concVars

SpecEnrich == InitEnrich /\ [][NextEnrich]_vars

(***************************************************************************)
(* Two runs of the script on one cache file.  Streamlit runs the script    *)
(* once per session and every run opens its own connections to CACHE_DB,   *)
(* so the statements of two runs interleave.  peer holds the locals of the *)
(* second run.  SQLite serialises write transactions and a reader sees the *)
(* file as of the last commit: executemany followed by commit is one step, *)
(* and so is a SELECT.  commits is the history of these transactions.  The *)
(* statistics of the remote change between two requests and seconds pass   *)
(* between two statements.  The candidate lists are shorter than one batch.*)
(***************************************************************************)
ConcurrentCandidates == {<<"a", "b">>, <<"b", "c">>, <<"c">>}

\* WorldPlain some views and subscribers later.
WorldLater ==
  [videos |-> [v \in VideoIds |->
      Some([Val(WorldPlain.videos[v]) EXCEPT !.viewCount = Some(Val(@) + 1)])],
   subs |-> [c \in ChannelIds |-> IF c = "k1" THEN Some(Some(6)) ELSE Some(Some(1))]]

scanVars == <<pc, ui, exc, chartVars, video_ids, videoVars, chunk_i, channelVars,
              outVars, calls, gathered, last>>

InitConcurrent ==
  /\ now = Time0
  /\ videos_cache = {} /\ channels_cache = {}
  /\ remote_videos = WorldPlain.videos /\ remote_subs = WorldPlain.subs
  /\ pc = "videos_lookup"
  /\ ui = [UiUnread EXCEPT !.max_candidates = MaxCap]
  /\ exc = None
  /\ cat_i = 0 /\ page_n = 0 /\ page_token = None /\ ids = <<>> /\ chart_calls = <<>>
  /\ video_ids \in ConcurrentCandidates
  /\ gathered = video_ids
  /\ cached_v = <<>> /\ missing_v = <<>> /\ chunk_i = 0
  /\ fresh_v_items = <<>> /\ vids = <<>> /\ channel_ids = <<>>
  /\ cached_c = <<>> /\ missing_c = <<>> /\ fresh_subs = <<>>
  /\ rows = <<>> /\ df = <<>> /\ errors = <<>>
  /\ calls = <<>> /\ last = NoLast
  /\ ticks = 0 /\ nscans = 1
  /\ \E cand \in ConcurrentCandidates :
       peer = [NoPeer EXCEPT !.pc = "videos_lookup", !.video_ids = cand]
  /\ commits = <<>>

\* The rows one call of upsert_videos_cache / upsert_channels_cache binds.
VideoPayload(items, t) == {row_of_item(items[k], t) : k \in 1..Len(items)}
ChannelPayload(items, t) ==
  {[channel_id |-> c, subs |-> items[c], fetched_at |-> now_utc_iso(t)] :
     c \in DOMAIN items}

\* conn.commit() of a run: the transaction enters the history.
Commit(by, table, payload) ==
  commits' = IF payload = {} THEN commits
             ELSE Append(commits, [by |-> by, table |-> table, rows |-> payload])

\* The statements of the first run, with the transactions they commit.
MainVideosUpsert ==
  /\ VideosUpsert
  /\ Commit("main", "videos", VideoPayload(fresh_v_items, now))
  /\ UNCHANGED peer

MainChannelsUpsert ==
  /\ ChannelsUpsert
  /\ Commit("main", "channels", ChannelPayload(fresh_subs, now))
  /\ UNCHANGED peer

\* cached_v = get_cached_videos(...); missing_v = [...], in the second run.
PeerVideosLookup ==
  /\ peer.pc = "videos_lookup"
  /\ \E h \in 1..MaxHours :
       \E out \in Orders(get_cached_videos(videos_cache, peer.video_ids, h, now)) :
         peer' = [peer EXCEPT
                    !.cached_v = out,
                    !.missing_v = Without(peer.video_ids, Keys(out)),
                    !.pc = IF Without(peer.video_ids, Keys(out)) # <<>>
                             THEN "videos_fetch" ELSE "channels_lookup"]
  /\ UNCHANGED <<now, cacheVars, worldVars, scanVars, boundVars, commits>>

\* fetch_videos_api of the second run: one batch.
PeerVideosFetch ==
  /\ peer.pc = "videos_fetch"
  /\ LET chunk == Chunk(peer.missing_v, 0) IN
       \/ \E resp \in Orders({v \in Range(chunk) : ~IsNone(remote_videos[v])}) :
            peer' = [peer EXCEPT
                       !.fresh_v_items =
                          [k \in 1..Len(resp) |->
                             item_dict(resp[k], Val(remote_videos[resp[k]]))],
                       !.pc = "videos_upsert"]
       \/ peer' = [peer EXCEPT !.pc = "error"]
  /\ UNCHANGED <<now, cacheVars, worldVars, scanVars, boundVars, commits>>

PeerVideosUpsert ==
  /\ peer.pc = "videos_upsert"
  /\ videos_cache' = upsert_videos_cache(videos_cache, peer.fresh_v_items, now)
  /\ Commit("peer", "videos", VideoPayload(peer.fresh_v_items, now))
  /\ peer' = [peer EXCEPT !.pc = "channels_lookup"]
  /\ UNCHANGED <<now, channels_cache, worldVars, scanVars, boundVars>>

\* all_v, channel_ids, cached_c and missing_c of the second run.
PeerChannelsLookup ==
  /\ peer.pc = "channels_lookup"
  /\ \E h \in 1..MaxHours :
       LET all_v == dict_merge(peer.cached_v, peer.fresh_v_items)
           cids == list_of_set({all_v[k].channelId : k \in 1..Len(all_v)} \ {""})
           out == IF cids = <<>> THEN <<>>
                  ELSE get_cached_subs(channels_cache, cids, h, now)
       IN peer' = [peer EXCEPT
                     !.missing_c = Without(cids, DOMAIN out),
                     !.pc = IF Without(cids, DOMAIN out) # <<>>
                              THEN "channels_fetch" ELSE "done"]
  /\ UNCHANGED <<now, cacheVars, worldVars, scanVars, boundVars, commits>>

\* fetch_channels_subs_api of the second run: one batch.
PeerChannelsFetch ==
  /\ peer.pc = "channels_fetch"
  /\ LET chunk == Chunk(SelectSeq(peer.missing_c, LAMBDA c : c # ""), 0) IN
       \/ peer' = [peer EXCEPT !.fresh_subs = subs_of_response(chunk),
                               !.pc = "channels_upsert"]
       \/ peer' = [peer EXCEPT !.pc = "error"]
  /\ UNCHANGED <<now, cacheVars, worldVars, scanVars, boundVars, commits>>

PeerChannelsUpsert ==
  /\ peer.pc = "channels_upsert"
  /\ channels_cache' = upsert_channels_cache(channels_cache, peer.fresh_subs, now)
  /\ Commit("peer", "channels", ChannelPayload(peer.fresh_subs, now))
  /\ peer' = [peer EXCEPT !.pc = "done"]
  /\ UNCHANGED <<now, videos_cache, worldVars, scanVars, boundVars>>

\* Views and subscribers move on between two requests.
Drift ==
  /\ remote_videos = WorldPlain.videos
  /\ remote_videos' = WorldLater.videos /\ remote_subs' = WorldLater.subs
  /\ UNCHANGED <<now, cacheVars, scanVars, boundVars, concVars>>

\* A second passes between two statements.
Elapse ==
  /\ ticks < MaxTicks
  /\ ticks' = ticks + 1
  /\ now' = now + 1
  /\ UNCHANGED <<cacheVars, worldVars, scanVars, nscans, concVars>>

NextConcurrent ==
  \/ VideosLookup /\ UNCHANGED concVars
  \/ VideosFetch /\ UNCHANGED concVars
  \/ MainVideosUpsert
  \/ Merge /\ UNCHANGED concVars
  \/ ChannelsLookup /\ UNCHANGED concVars
  \/ ChannelsFetch /\ UNCHANGED concVars
  \/ MainChannelsUpsert
  \/ HandleHttpError /\ UNCHANGED concVars
  \/ PeerVideosLookup
  \/ PeerVideosFetch
  \/ PeerVideosUpsert
  \/ PeerChannelsLookup
  \/ PeerChannelsFetch
  \/ PeerChannelsUpsert
  \/ Drift
  \/ Elapse

SpecConcurrent == InitConcurrent /\ [][NextConcurrent]_vars

(***************************************************************************)
(* Vocabulary of the properties.                                           *)
(***************************************************************************)
\* A record is fresh for a window of h hours: now - fetched_at <= h hours.
AgeWithin(fetched_at, h) ==
  fetched_at.kind = "iso" /\ now - fetched_at.t <= h * 3600

FreshVideoRow(id, h) ==
  \E r \in videos_cache : r.video_id = id /\ AgeWithin(r.fetched_at, h)
FreshChannelRow(c, h) ==
  \E r \in channels_cache : r.channel_id = c /\ AgeWithin(r.fetched_at, h)

\* The states right after get_cached_videos / get_cached_subs returned: the
\* tables and the clock are those the lookup read.
VideosLookedUp == pc \in {"videos_fetch", "merge"} /\ ui.video_cache_hours > 0
ChannelsLookedUp == pc \in {"channels_fetch", "filter"} /\ ui.channel_cache_hours > 0

CallsOf(op) == {k \in 1..Len(calls) : calls[k].op = op}
Requested(op) == UNION {Range(calls[k].ids) : k \in CallsOf(op)}
AfterVideos == {"merge", "channels_lookup", "channels_fetch", "channels_upsert",
                "filter", "render", "done", "crashed"}
AfterChannels == {"filter", "render", "done", "crashed"}

(***************************************************************************)
(* C1.  Cache hit avoids remote calls: when every candidate id has a fresh *)
(* record in videos_cache the scan goes on without a video-detail call,    *)
(* when every channel id of the resolved videos has a fresh record in      *)
(* channels_cache it goes on without a channel-statistics call, and a scan *)
(* whose lookups missed nothing has issued no such call when it ends.      *)
(***************************************************************************)
C1_CacheHitNoCalls ==
  /\ (VideosLookedUp /\ \A id \in Range(video_ids) : FreshVideoRow(id, ui.video_cache_hours))
       => (pc = "merge" /\ missing_v = <<>> /\ CallsOf("videos") = {})
  /\ (ChannelsLookedUp
        /\ \A c \in Range(channel_ids) : FreshChannelRow(c, ui.channel_cache_hours))
       => (pc = "filter" /\ missing_c = <<>> /\ CallsOf("channels") = {})
  /\ (pc \in AfterVideos /\ missing_v = <<>>) => CallsOf("videos") = {}
  /\ (pc \in AfterChannels /\ missing_c = <<>>) => CallsOf("channels") = {}

\* A second scan found its two candidates and their channel fresh and reached
\* the filter without a call.
C1_Witness ==
  /\ pc = "filter" /\ ui.channel_cache_hours > 0
  /\ Len(video_ids) = 2 /\ Len(vids) = 2 /\ channel_ids # <<>>
  /\ \A c \in Range(channel_ids) : FreshChannelRow(c, ui.channel_cache_hours)
  /\ calls = <<>>

(***************************************************************************)
(* C2.  A scan that follows a completed scan over the same candidates.     *)
(* SameAsLast: the scan before this one completed and had the candidates   *)
(* of this one.  The windows are open when every record the earlier scan   *)
(* resolved is still fresh at the lookup of this one.                      *)
(***************************************************************************)
SameAsLast ==
  last.completed /\ last.scan = nscans - 1 /\ last.video_ids = Range(video_ids)
VideoWindowOpen ==
  \A id \in last.resolved : FreshVideoRow(id, ui.video_cache_hours)
ChannelWindowOpen ==
  \A c \in last.subs_keys : FreshChannelRow(c, ui.channel_cache_hours)

\* C2 as stated: the repeat scan issues no video-detail and no
\* channel-statistics call, whatever the remote answered to the first scan.
C2_RepeatScanNoCalls ==
  /\ (VideosLookedUp /\ SameAsLast /\ VideoWindowOpen) => missing_v = <<>>
  /\ (ChannelsLookedUp /\ SameAsLast /\ ChannelWindowOpen) => missing_c = <<>>
  /\ (pc \in AfterVideos /\ missing_v = <<>>) => CallsOf("videos") = {}
  /\ (pc \in AfterChannels /\ missing_c = <<>>) => CallsOf("channels") = {}

\* C2 amended: the repeat scan asks the remote only for the video ids the
\* responses to the first scan omitted, and only for channel ids those
\* responses omitted or that belong to videos the first scan had not resolved;
\* so it issues no call when the first scan's responses omitted nothing.
C2_RepeatScanAsksOnlyOmitted ==
  /\ (VideosLookedUp /\ SameAsLast /\ VideoWindowOpen)
       => Range(missing_v) \subseteq (last.video_ids \ last.resolved)
  /\ (ChannelsLookedUp /\ SameAsLast /\ ChannelWindowOpen)
       => Range(missing_c) \subseteq
            ((last.channel_ids \ last.subs_keys)
               \cup {vids[k].channelId : k \in {j \in 1..Len(vids) :
                                                 vids[j].videoId \notin last.resolved}})
  /\ pc \in AfterVideos => Requested("videos") \subseteq Range(missing_v)
  /\ pc \in AfterChannels => Requested("channels") \subseteq Range(missing_c)
  /\ (VideosLookedUp /\ SameAsLast /\ VideoWindowOpen /\ last.resolved = last.video_ids)
       => (pc = "merge" /\ calls = <<>>)

\* A repeat scan within the windows whose first scan was refused nothing:
\* it reaches the filter without a call.
C2_Witness ==
  /\ pc = "filter" /\ ui.channel_cache_hours > 0
  /\ SameAsLast /\ ChannelWindowOpen
  /\ last.resolved = last.video_ids /\ last.video_ids # {}
  /\ last.channel_ids # {} /\ last.channel_ids \subseteq last.subs_keys
  /\ now > Time0
  /\ calls = <<>>

(***************************************************************************)
(* C3.  Freshness cutoff is inclusive at the boundary: get_cached_videos   *)
(* (and likewise get_cached_subs) returns a requested id exactly when the  *)
(* table holds a record of it with now - fetched_at <= H hours, so a       *)
(* record aged exactly H hours is returned and one aged a second more is   *)
(* not; an id without a record or with a stale one is left out of the      *)
(* result, and the lookup raises nothing.                                  *)
(***************************************************************************)
C3_InclusiveCutoff ==
  /\ VideosLookedUp =>
       /\ exc = None
       /\ \A id \in Range(video_ids) :
            (id \in Keys(cached_v)) <=> FreshVideoRow(id, ui.video_cache_hours)
       /\ \A r \in videos_cache :
            r.video_id \in Range(video_ids) =>
              /\ now - r.fetched_at.t = ui.video_cache_hours * 3600
                   => r.video_id \in Keys(cached_v)
              /\ now - r.fetched_at.t = ui.video_cache_hours * 3600 + 1
                   => r.video_id \notin Keys(cached_v)
  /\ ChannelsLookedUp =>
       /\ exc = None
       /\ \A c \in Range(channel_ids) :
            (c \in DOMAIN cached_c) <=> FreshChannelRow(c, ui.channel_cache_hours)
       /\ \A r \in channels_cache :
            r.channel_id \in Range(channel_ids) =>
              /\ now - r.fetched_at.t = ui.channel_cache_hours * 3600
                   => r.channel_id \in DOMAIN cached_c
              /\ now - r.fetched_at.t = ui.channel_cache_hours * 3600 + 1
                   => r.channel_id \notin DOMAIN cached_c

\* A lookup returned a record aged exactly H hours.
C3_Witness ==
  /\ VideosLookedUp
  /\ \E r \in videos_cache :
       /\ r.video_id \in Keys(cached_v)
       /\ now - r.fetched_at.t = ui.video_cache_hours * 3600

(***************************************************************************)
(* C4.  Dedupe then cap: the candidate list holds no id twice, keeps the   *)
(* gathered ids in the order of their first occurrence, and is the first   *)
(* min(cap, number of distinct gathered ids) of them; it is cut before any *)
(* cache lookup or detail call.  Gathered a, b, a, c, b, d with cap 3      *)
(* gives a, b, c.                                                          *)
(***************************************************************************)
FirstAt(xs, x) == CHOOSE i \in 1..Len(xs) : xs[i] = x /\ \A j \in 1..(i - 1) : xs[j] # x
Deduped == pc = "videos_lookup" /\ ui.max_candidates > 0

C4_DedupeThenCap ==
  /\ Deduped =>
       /\ \A i, j \in 1..Len(video_ids) : video_ids[i] = video_ids[j] => i = j
       /\ Range(video_ids) \subseteq Range(gathered)
       /\ Len(video_ids) = Min(ui.max_candidates, Cardinality(Range(gathered)))
       /\ \A i, j \in 1..Len(video_ids) :
            i < j => FirstAt(gathered, video_ids[i]) < FirstAt(gathered, video_ids[j])
       /\ \A x \in Range(gathered) \ Range(video_ids) :
            \A i \in 1..Len(video_ids) :
              FirstAt(gathered, video_ids[i]) < FirstAt(gathered, x)
       /\ calls = <<>> /\ cached_v = <<>> /\ missing_v = <<>>
  /\ dedupe_and_cap(<<"a", "b", "a", "c", "b", "d">>, 3) = <<"a", "b", "c">>

\* Two categories gathered a, b and then a, c; the cap of 2 kept a, b.
C4_Witness ==
  /\ Deduped
  /\ gathered = <<"a", "b", "a", "c">>
  /\ ui.max_candidates = 2
  /\ video_ids = <<"a", "b">>

(***************************************************************************)
(* C5.  Category 404 isolation: in category mode a 404 raised by the chart *)
(* listing of one category ends that category only.  The ids collected so  *)
(* far are kept, nothing is added to the errors, the loop goes on to the   *)
(* next selected category (or to the dedupe after the last one), and each  *)
(* category that succeeds appends its listing to the collected ids.        *)
(***************************************************************************)
CategoryRaised(e) == pc = "chart" /\ ui.scan_by_categories /\ exc = Some(e)

C5_Category404Isolation ==
  [][/\ CategoryRaised("notFound") =>
          /\ video_ids' = video_ids
          /\ errors' = errors /\ errors = <<>>
          /\ exc' = None
          /\ IF cat_i < Len(ui.selected_ids)
               THEN /\ pc' = "chart" /\ cat_i' = cat_i + 1
                    /\ ids' = <<>> /\ page_n' = 0 /\ page_token' = None
               ELSE pc' = "dedupe"
     /\ (pc = "chart" /\ ui.scan_by_categories /\ exc = None /\ video_ids' # video_ids) =>
          /\ SubSeq(video_ids', 1, Len(video_ids)) = video_ids
          /\ Range(ids) \subseteq Range(video_ids')
          /\ pc' \in {"chart", "dedupe"} /\ exc' = None
    ]_vars

\* The first selected category gave its ids and the second one raised 404.
C5_Witness ==
  /\ CategoryRaised("notFound")
  /\ cat_i = 2 /\ Len(ui.selected_ids) = 2
  /\ video_ids # <<>>

(***************************************************************************)
(* C6.  Quota and generic remote failures are fatal for the scan: when a   *)
(* remote call of a scan (a chart listing, that of one category included,  *)
(* a video-detail batch or a channel-statistics batch) fails with a quota  *)
(* error or a generic remote error, the scan aborts: the failure is added  *)
(* to the errors shown to the caller, no further remote call is issued,    *)
(* the failed call is not issued again and there are no result rows.       *)
(***************************************************************************)
FatalErrors == {"quotaExceeded", "backendError"}
FatalRaised == exc # None /\ Val(exc) \in FatalErrors

C6_QuotaAndRemoteErrorsAbort ==
  /\ [][FatalRaised =>
          /\ pc' = "error"
          /\ errors' = Append(errors, Val(exc))
          /\ calls' = calls /\ chart_calls' = chart_calls
          /\ rows' = <<>> /\ df' = <<>>]_vars
  /\ [](pc = "error" => (errors # <<>> /\ rows = <<>> /\ df = <<>> /\ exc = None))
  /\ [][pc = "error" => (pc' = "categories" \/ pc' = "chart") /\ nscans' = nscans + 1]_vars

(***************************************************************************)
(* C7.  Inclusion filter: a resolved video produces an output row iff      *)
(* not (exclude_shorts and duration_seconds < min_duration_seconds), and   *)
(* views >= min_views, and subscribers is absent or <= max_subs, and       *)
(* ratio is undefined or >= min_ratio, where ratio = views / subscribers   *)
(* is defined only for a present subscriber count > 0.                     *)
(***************************************************************************)
SubsOf(v) == IF v.channelId \in DOMAIN subs_map THEN subs_map[v.channelId] ELSE None
RatioDefined(v) == ~IsNone(SubsOf(v)) /\ Val(SubsOf(v)) > 0
PassesFilters(v, f) ==
  /\ ~(f.exclude_shorts /\ iso_duration_to_seconds(v.duration_iso) < f.min_seconds)
  /\ v.views >= f.min_views
  /\ (IsNone(SubsOf(v)) \/ Val(SubsOf(v)) <= f.max_subs)
  /\ (~RatioDefined(v) \/ v.views >= f.min_ratio * Val(SubsOf(v)))
HasRow(v) == \E j \in 1..Len(rows) : rows[j].url = v.videoId
\* The states right after the loop over the resolved videos ended.
Filtered == pc \in {"render", "crashed"}

C7_InclusionFilter ==
  Filtered => \A k \in 1..Len(vids) : HasRow(vids[k]) <=> PassesFilters(vids[k], ui)

(***************************************************************************)
(* C8.  A hidden subscriber count is a cached value, distinct from "not    *)
(* cached": once upsert_channels_cache was given c mapped to None,         *)
(* get_cached_subs within the window returns a mapping with key c and      *)
(* value None, the scan that refers to c within that window leaves c out   *)
(* of every channel-statistics call, and a channel without a record is     *)
(* absent from the mapping.                                                *)
(***************************************************************************)
C8_HiddenCountIsCached ==
  /\ (pc = "filter" /\ fresh_subs # <<>>) =>
       \A c \in DOMAIN fresh_subs :
         fresh_subs[c] = None =>
           /\ [channel_id |-> c, subs |-> None, fetched_at |-> IsoText(now)] \in channels_cache
           /\ \A h \in 1..MaxHours :
                LET got == get_cached_subs(channels_cache, <<c>>, h, now)
                IN c \in DOMAIN got /\ got[c] = None
  /\ ChannelsLookedUp =>
       /\ \A r \in channels_cache :
            (/\ r.channel_id \in Range(channel_ids)
             /\ r.subs = None
             /\ AgeWithin(r.fetched_at, ui.channel_cache_hours))
              => /\ r.channel_id \in DOMAIN cached_c
                 /\ cached_c[r.channel_id] = None
                 /\ r.channel_id \notin Range(missing_c)
       /\ \A c \in DOMAIN cached_c : \E r \in channels_cache : r.channel_id = c
       /\ \A c \in Range(channel_ids) :
            (~\E r \in channels_cache : r.channel_id = c) => c \in Range(missing_c)
  /\ pc \in AfterChannels \cup {"channels_fetch", "channels_upsert"} =>
       /\ Requested("channels") \subseteq Range(missing_c)
       /\ Range(missing_c) \cap DOMAIN cached_c = {}

\* A later scan read the hidden count of its channel from the cache and had
\* nothing to ask the remote.
C8_Witness ==
  /\ ChannelsLookedUp /\ pc = "filter"
  /\ \E c \in Range(channel_ids) : c \in DOMAIN cached_c /\ cached_c[c] = None
  /\ missing_c = <<>> /\ CallsOf("channels") = {}

(***************************************************************************)
(* C9.  Upsert idempotence: upsert_videos_cache called again with an item  *)
(* it has stored before leaves exactly one record of that video, whose     *)
(* snapshot fields are those of the first call and whose fetched_at is the *)
(* time of the second call; get_cached_videos returns that same snapshot   *)
(* under every window in which the record is fresh.                        *)
(***************************************************************************)
RowsOf(table, id) == {r \in table : r.video_id = id}

C9_UpsertIdempotence ==
  /\ [](\A r1, r2 \in videos_cache : r1.video_id = r2.video_id => r1 = r2)
  /\ [][(pc = "videos_upsert" /\ pc' = "merge") =>
          \A k \in 1..Len(fresh_v_items) :
            LET it == fresh_v_items[k]
                before == RowsOf(videos_cache, it.videoId)
                after == RowsOf(videos_cache', it.videoId)
            IN /\ Cardinality(after) = 1
               /\ \A r \in after : r.fetched_at = IsoText(now)
               /\ \A b \in before :
                    snapshot_of_row(b) = it =>
                      /\ \A r \in after : snapshot_of_row(r) = snapshot_of_row(b)
                      /\ \A h \in 0..MaxHours :
                           get_cached_videos(videos_cache', <<it.videoId>>, h, now)
                             = {snapshot_of_row(b)}]_vars

\* A video resolved by the scan before was fetched again after its record
\* went stale, and the same item was stored a second time.
C9_Witness ==
  /\ pc = "merge" /\ fresh_v_items # <<>>
  /\ now > Time0
  /\ \E k \in 1..Len(fresh_v_items) :
       /\ fresh_v_items[k].videoId \in last.resolved
       /\ RowsOf(videos_cache, fresh_v_items[k].videoId)
            = {row_of_item(fresh_v_items[k], now)}

(***************************************************************************)
(* C10.  Sort ties are stable in discovery order: two rows of the ranked   *)
(* output with equal sort key stand in the order of their video ids in the *)
(* deduplicated candidate list, whichever of them came from the cache.     *)
(***************************************************************************)
PlaceOf(xs, x) == CHOOSE i \in 1..Len(xs) : xs[i] = x

C10_TiesInDiscoveryOrder ==
  (pc = "done" /\ df # <<>>) =>
    \A i, j \in 1..Len(df) :
      (i < j /\ sort_key(df[i], ui.sort_mode) = sort_key(df[j], ui.sort_mode))
        => PlaceOf(video_ids, df[i].url) < PlaceOf(video_ids, df[j].url)

(***************************************************************************)
(* C11.  No fetched data is lost on a mid-scan failure: when a scan fails  *)
(* after a video-detail call has returned, every snapshot that call        *)
(* returned is stored in the video cache when the scan ends, fresh for the *)
(* next run; likewise every subscriber count a channel-statistics call     *)
(* returned is stored in the channel cache.                                *)
(***************************************************************************)
ScanFailed == pc \in {"error", "crashed"}
VideoKept(it) ==
  \E r \in videos_cache :
    /\ r.video_id = it.videoId /\ snapshot_of_row(r) = it
    /\ AgeWithin(r.fetched_at, 1)
SubsKept(c, n) ==
  \E r \in channels_cache :
    /\ r.channel_id = c /\ r.subs = n
    /\ AgeWithin(r.fetched_at, 1)

C11_NoFetchedDataLost ==
  ScanFailed =>
    /\ \A k \in 1..Len(fresh_v_items) : VideoKept(fresh_v_items[k])
    /\ \A c \in DOMAIN fresh_subs : SubsKept(c, fresh_subs[c])

(***************************************************************************)
(* C12.  Batching: fetch_videos_api and fetch_channels_subs_api send calls *)
(* of 1 to 50 ids each; the batches of a scan follow the list of missing   *)
(* ids without repeating or skipping one, and cover it when the last call  *)
(* has returned, so that each missing id is requested in exactly one       *)
(* batch; only ids without a fresh record at the lookup are requested.     *)
(***************************************************************************)
RECURSIVE IdsSent(_, _)
\* The ids of the first n calls to op, in the order sent.
IdsSent(op, n) ==
  IF n = 0 THEN <<>>
  ELSE IdsSent(op, n - 1) \o (IF calls[n].op = op THEN calls[n].ids ELSE <<>>)
AllSent(op) == IdsSent(op, Len(calls))
NoRepeat(xs) == \A i, j \in 1..Len(xs) : xs[i] = xs[j] => i = j
VideosFetched == pc \in {"videos_upsert"} \cup AfterVideos
ChannelsFetched == pc \in {"channels_upsert"} \cup AfterChannels

C12_Batching ==
  /\ \A k \in 1..Len(calls) : Len(calls[k].ids) >= 1 /\ Len(calls[k].ids) <= 50
  /\ NoRepeat(missing_v) /\ NoRepeat(missing_c)
  /\ (pc \in {"videos_fetch", "error"} \/ VideosFetched) =>
       AllSent("videos") = SubSeq(missing_v, 1, Len(AllSent("videos")))
  /\ VideosFetched => AllSent("videos") = missing_v
  /\ (pc \in {"channels_fetch", "error"} \/ ChannelsFetched) =>
       AllSent("channels") = SubSeq(missing_c, 1, Len(AllSent("channels")))
  /\ ChannelsFetched => AllSent("channels") = missing_c
  /\ VideosLookedUp =>
       Range(missing_v) = {id \in Range(video_ids) :
                             ~FreshVideoRow(id, ui.video_cache_hours)}
  /\ ChannelsLookedUp =>
       Range(missing_c) = {c \in Range(channel_ids) :
                             ~FreshChannelRow(c, ui.channel_cache_hours)}

\* 101 missing videos went out as batches of 50, 50 and 1.
C12_Witness ==
  /\ pc = "videos_upsert"
  /\ Len(missing_v) = 101
  /\ Len(calls) = 3
  /\ Len(calls[1].ids) = 50 /\ Len(calls[2].ids) = 50 /\ Len(calls[3].ids) = 1

(***************************************************************************)
(* C13.  A malformed cache timestamp is never fresh: for every max_age     *)
(* value, a stored video or channel record whose fetched_at is missing or  *)
(* unparsable is left out of the result of get_cached_videos and of        *)
(* get_cached_subs, and the read raises nothing.  The windows tried are    *)
(* those of the sidebar and one as long as the time since the epoch.       *)
(***************************************************************************)
Malformed(fetched_at) == fetched_at.kind # "iso"
WindowsTried == (0..MaxHours) \cup {72, 168, now \div 3600 + 1}

VideoOfRow(r) == vids[CHOOSE k \in 1..Len(vids) : vids[k].videoId = r.url]

C14_MalformedFieldsNeverAbort ==
  /\ pc # "crashed"
  /\ pc = "render" =>
       \A j \in 1..Len(rows) :
         /\ IsNone(DUR_RE_fullmatch(VideoOfRow(rows[j]).duration_iso))
              => rows[j].duration_sec = 0
         /\ rows[j].views_per_day # None

(***************************************************************************)
(* C15.  Chart pagination ends within its budget: most_popular_video_ids   *)
(* issues at least 1 and at most max_pages chart calls; the first call     *)
(* carries no page token, each later call carries the continuation token   *)
(* the call before it returned, and no call follows a page that returned   *)
(* no continuation token.                                                  *)
(***************************************************************************)
RealToken(tok) == tok # None /\ tok # Some("")
\* The loop of most_popular_video_ids is about to send its next request.
ChartLoop == pc = "chart" /\ exc = None

C15_ChartPagination ==
  /\ [](pc = "chart" =>
          /\ ui.pages >= 1 /\ page_n < ui.pages
          /\ Len(chart_calls) <= ui.pages
          /\ \A k \in 1..Len(chart_calls) :
               IF k = 1 THEN chart_calls[k].page_token = None
               ELSE RealToken(chart_calls[k].page_token))
  /\ [](ChartLoop =>
          /\ Len(chart_calls) = page_n
          /\ page_n = 0 => page_token = None
          /\ page_n > 0 => RealToken(page_token))
  /\ [][ChartLoop =>
          /\ (chart_calls' # chart_calls /\ chart_calls' # <<>>) =>
                /\ chart_calls' = Append(chart_calls, chart_calls'[Len(chart_calls')])
                /\ chart_calls'[Len(chart_calls')].page_token = page_token
          /\ (pc' = "chart" /\ exc' = None /\ page_n' # 0) =>
                /\ page_n' = page_n + 1
                /\ RealToken(page_token')
                /\ Len(chart_calls') = page_n + 1]_vars

\* A second request went out with the token the first page returned.
C15_Witness ==
  /\ pc = "chart" /\ ui.pages = 2
  /\ Len(chart_calls) = 2
  /\ chart_calls[1].page_token = None
  /\ chart_calls[2].page_token = page_token /\ RealToken(page_token)

(***************************************************************************)
(* C16.  Cache reads have no effect and records are never deleted:         *)
(* get_cached_videos and get_cached_subs leave both tables as they are (a  *)
(* stale record stays stored, unmodified, until an upsert of its key       *)
(* overwrites it), an upsert changes only the records whose keys are in    *)
(* its input, and the set of keys of each table never shrinks.             *)
(***************************************************************************)
VideoKeys(table) == {r.video_id : r \in table}
ChannelKeys(table) == {r.channel_id : r \in table}

C16_ReadsPureNoDeletes ==
  [][/\ pc \in {"videos_lookup", "channels_lookup"} =>
          (videos_cache' = videos_cache /\ channels_cache' = channels_cache)
     /\ VideoKeys(videos_cache) \subseteq VideoKeys(videos_cache')
     /\ ChannelKeys(channels_cache) \subseteq ChannelKeys(channels_cache')
     /\ \A r \in videos_cache \cup videos_cache' :
          (r \in videos_cache /\ r \in videos_cache')
            \/ (pc = "videos_upsert" /\ r.video_id \in Keys(fresh_v_items))
     /\ \A r \in channels_cache \cup channels_cache' :
          (r \in channels_cache /\ r \in channels_cache')
            \/ (pc = "channels_upsert" /\ r.channel_id \in DOMAIN fresh_subs)
     /\ videos_cache' # videos_cache => channels_cache' = channels_cache
    ]_vars

\* An upsert has just stored a video while the stale record of another video,
\* which no lookup returns any more, is still in the table.
C16_Witness ==
  /\ pc = "merge" /\ fresh_v_items # <<>>
  /\ \E r \in videos_cache :
       /\ r.video_id \notin Keys(fresh_v_items)
       /\ now - r.fetched_at.t > ui.video_cache_hours * 3600

(***************************************************************************)
(* C17.  Two runs of the script on one cache file do not corrupt records:  *)
(* whatever the interleaving of their lookups, requests and upserts, each  *)
(* table holds one record per key, every stored record is, in all its      *)
(* fields together, a row of one single committed upsert, and it is the    *)
(* row of the latest committed upsert that wrote its key (last write wins, *)
(* in particular once both runs are over).                                 *)
(***************************************************************************)
KeyOf(table, r) == IF table = "videos" THEN r.video_id ELSE r.channel_id

\* The commits to a table that wrote key k, as indexes of the history.
WritesOf(table, k) ==
  {i \in 1..Len(commits) :
     commits[i].table = table /\ \E r \in commits[i].rows : KeyOf(table, r) = k}

\* r is the row the latest commit to its key wrote.
LastWriteWins(table, r) ==
  LET w == WritesOf(table, KeyOf(table, r)) IN
    /\ w # {}
    /\ r \in commits[CHOOSE i \in w : \A j \in w : j <= i].rows

OneRowPerKey(table, stored) ==
  \A r1, r2 \in stored : KeyOf(table, r1) = KeyOf(table, r2) => r1 = r2

RunOver == pc \in {"filter", "error"} /\ peer.pc \in {"done", "error"}

C17_ConcurrentScansKeepRecordsWhole ==
  /\ OneRowPerKey("videos", videos_cache)
  /\ OneRowPerKey("channels", channels_cache)
  /\ \A r \in videos_cache : LastWriteWins("videos", r)
  /\ \A r \in channels_cache : LastWriteWins("channels", r)

\* Both runs are over; they both wrote one video, with different payloads and
\* at different times, the first run before the second, and both wrote one
\* channel, the second run before the first.
C17_Witness ==
  /\ RunOver
  /\ \E i, j \in 1..Len(commits) :
       /\ i < j
       /\ commits[i].table = "videos" /\ commits[j].table = "videos"
       /\ commits[i].by = "main" /\ commits[j].by = "peer"
       /\ \E r1 \in commits[i].rows, r2 \in commits[j].rows :
            /\ r1.video_id = r2.video_id
            /\ r1.views # r2.views
            /\ r1.fetched_at # r2.fetched_at
            /\ r2 \in videos_cache
  /\ \E i, j \in 1..Len(commits) :
       /\ i < j
       /\ commits[i].table = "channels" /\ commits[j].table = "channels"
       /\ commits[i].by = "peer" /\ commits[j].by = "main"
       /\ \E r1 \in commits[i].rows, r2 \in commits[j].rows :
            /\ r1.channel_id = r2.channel_id
            /\ r1 # r2
            /\ r2 \in channels_cache

(***************************************************************************)
(* C18.  Per-run quota bound: "dedupe + hard limit" leaves at most         *)
(* max_candidates ids in video_ids and nothing changes the list before the *)
(* next run; the ids a scan sends to videos().list are never more than     *)
(* video_ids holds, the ids it sends to channels().list never more than    *)
(* the videos resolved, which are no more than video_ids holds; and a scan *)
(* with an empty video_ids makes no detail call, no channel call and no    *)
(* write to either table.                                                  *)
(***************************************************************************)
Enriching == {"videos_lookup", "videos_fetch", "videos_upsert", "merge",
              "channels_lookup", "channels_fetch", "channels_upsert", "filter"}

C18_PerRunQuotaBound ==
  /\ [](/\ Len(AllSent("videos")) <= Len(video_ids)
        /\ Len(AllSent("channels")) <= Len(vids)
        /\ Len(vids) <= Len(video_ids)
        /\ (pc \in Enriching \cup {"render", "done"} /\ video_ids = <<>>) =>
             calls = <<>>)
  /\ [][/\ pc = "dedupe" => Len(video_ids') <= ui'.max_candidates
        /\ pc \in Enriching =>
             /\ video_ids' = video_ids
             /\ video_ids = <<>> =>
                  (videos_cache' = videos_cache /\ channels_cache' = channels_cache)
       ]_vars

\* A scan that spent its whole allowance: every candidate was asked of
\* videos().list and every resolved video has a channel of its own.
C18_Witness ==
  /\ pc = "filter"
  /\ Len(video_ids) >= 2
  /\ Len(AllSent("videos")) = Len(video_ids)
  /\ Len(AllSent("channels")) = Len(vids)

====
